---- MODULE Spec2Model ----
(***************************************************************************)
(* Model of the ERP attendance bot.  The repository holds two variants of  *)
(* the same script: src/index.js (the dashboard is a frameset; the bot     *)
(* clicks through the navigation frame and reads the table from the        *)
(* content frame) and src/unnamed/part_000 (the bot opens the attendance   *)
(* page by URL).  `variant' selects which script is running.               *)
(*                                                                         *)
(* Text is modelled as a sequence of one-character strings so that trim,   *)
(* split, indexOf, includes and the regular expressions of the source are  *)
(* computed character by character.                                        *)
(***************************************************************************)
EXTENDS Integers, Sequences, FiniteSets, TLC

VARIABLES
    variant,            \* "frames" = src/index.js, "direct" = src/unnamed/part_000
    pc,                 \* position of the async main function
    trace,              \* steps executed so far, in order
    sends,              \* Telegram requests attempted, in order: [kind, ok]
    exitCode,           \* -1 while running, then the process exit status
    closeCalls,         \* number of browser.close() invocations
    raisedAt,           \* step whose exception entered the catch block, or "none"
    errKind,            \* which error was thrown
    errUrls,            \* frame addresses listed in the error message
    tried,              \* navigation strategies attempted
    clickedAttendance,  \* index.js: the flag of the same name
    frameUrls,          \* page.frames() addresses seen by the frame scan
    navSignal,          \* the awaited navigation / load-state signal has fired
    tableReloaded,      \* the table for the selected month is fully loaded
    staleRead,          \* parsing started before the table reload completed
    legendInput,        \* innerText of the <td> cells read by the legend parser
    legendMap,          \* code -> name
    headers,            \* textContent of the header cells
    today,              \* day of month
    todayColIndex,
    todayHeaderText,
    rows,               \* data rows: each a sequence of <td> textContent
    absentSubjects,
    scanRaised          \* the row scan read a cell that does not exist

vars == <<variant, pc, trace, sends, exitCode, closeCalls, raisedAt, errKind,
          errUrls, tried, clickedAttendance, frameUrls, navSignal,
          tableReloaded, staleRead, legendInput, legendMap, headers, today,
          todayColIndex, todayHeaderText, rows, absentSubjects, scanRaised>>

----------------------------------------------------------------------------
(* Characters and JavaScript string primitives                             *)

NL == "\n"
EnDash == "ndash"
Upper == {"A","B","C","D","E","F","G","H","I","J","K","L","M",
          "N","O","P","Q","R","S","T","U","V","W","X","Y","Z"}
Lower == {"a","b","c","d","e","f","g","h","i","j","k","l","m",
          "n","o","p","q","r","s","t","u","v","w","x","y","z"}
Digit == {"0","1","2","3","4","5","6","7","8","9"}
Space == {" ", "\n", "\t", "\r"}
WordChar == Upper \cup Lower \cup Digit \cup {"_"}

SetMin(S) == CHOOSE x \in S : \A y \in S : x <= y
SetMax(S) == CHOOSE x \in S : \A y \in S : x >= y
Range(s) == {s[i] : i \in 1..Len(s)}

\* String.prototype.trim
Trim(s) ==
    LET keep == {i \in 1..Len(s) : s[i] \notin Space}
    IN  IF keep = {} THEN <<>> ELSE SubSeq(s, SetMin(keep), SetMax(keep))

\* String.prototype.indexOf: zero-based offset of the first occurrence, or -1
IndexOf(s, pat) ==
    LET hits == {i \in 1..(Len(s) - Len(pat) + 1) :
                    SubSeq(s, i, i + Len(pat) - 1) = pat}
    IN  IF hits = {} THEN -1 ELSE SetMin(hits) - 1

\* String.prototype.includes
Includes(s, pat) == IndexOf(s, pat) >= 0

\* String.prototype.split('\n')
RECURSIVE SplitLines(_)
SplitLines(s) ==
    LET nl == {i \in 1..Len(s) : s[i] = NL}
    IN  IF nl = {} THEN <<s>>
        ELSE <<SubSeq(s, 1, SetMin(nl) - 1)>>
             \o SplitLines(SubSeq(s, SetMin(nl) + 1, Len(s)))

\* map[code] = name on a plain object: insert or overwrite
MapPut(map, code, name) ==
    [c \in (DOMAIN map) \cup {code} |-> IF c = code THEN name ELSE map[c]]

EmptyMap == [c \in {} |-> <<>>]

----------------------------------------------------------------------------
(* Legend parser                                                           *)

MaxSepOffset == 20
Separator == <<" ", "-", " ">>

\* index.js: the shape test on a candidate code
IsSubjectCode(code) ==
    /\ code # <<>>
    /\ Range(code) \cap Space = {}
    /\ Range(code) \cap Upper # {}
    /\ Range(code) \cap Digit # {}

\* index.js: body of lines.forEach for one line
ParseLegendLine(map, line) ==
    LET text == Trim(line)
        idx  == IndexOf(text, Separator)
    IN  IF idx > 0 /\ idx < MaxSepOffset
        THEN LET code == Trim(SubSeq(text, 1, idx))
                 name == Trim(SubSeq(text, idx + 4, Len(text)))
             IN  IF IsSubjectCode(code) THEN MapPut(map, code, name) ELSE map
        ELSE map

RECURSIVE ParseLegendLines(_, _)
ParseLegendLines(map, lines) ==
    IF lines = <<>> THEN map
    ELSE ParseLegendLines(ParseLegendLine(map, Head(lines)), Tail(lines))

\* index.js: the evaluate callback, over every <td> of the table frame
RECURSIVE ParseLegendFrames(_, _)
ParseLegendFrames(map, cells) ==
    IF cells = <<>> THEN map
    ELSE ParseLegendFrames(
            ParseLegendLines(map, SplitLines(Trim(Head(cells)))), Tail(cells))

\* part_000: /^([A-Z]{2,}[\w-]+\d+)\s*[-–]\s*(.+)$/ against the whole cell.
\* LegendRegexRest(text, r): text after offset r matches \s*[-–]\s*(.+)$ ;
\* "." does not match a line break and "$" is the end of the input.
LegendRegexRest(text, r) ==
    LET n    == Len(text)
        nonw == {i \in (r + 1)..n : text[i] \notin Space}
    IN  /\ nonw # {}
        /\ text[SetMin(nonw)] \in {"-", EnDash}
        /\ LET h    == SetMin(nonw)
               brk  == {i \in (h + 1)..n : text[i] \in {NL, "\r"}}
           IN  /\ h < n
               \* a line break after the hyphen can only be consumed by \s*
               /\ \A b \in brk : \A i \in (h + 1)..b : text[i] \in Space
               /\ \E i \in (h + 1)..n : text[i] \notin Space

\* the offsets at which group 1 can end: a prefix of [\w-] characters that
\* starts with two capitals, ends with a digit and has a character between
LegendRegexEnds(text) ==
    {r \in 4..Len(text) :
        /\ text[1] \in Upper /\ text[2] \in Upper
        /\ \A i \in 1..r : text[i] \in WordChar \cup {"-"}
        /\ text[r] \in Digit
        /\ LegendRegexRest(text, r)}

\* part_000: body of cells.forEach for one cell.  The quantifiers are greedy,
\* so the match that is found is the one with the longest group 1.
ParseLegendCell(map, cell) ==
    LET text == Trim(cell)
        ends == LegendRegexEnds(text)
    IN  IF ends = {} THEN map
        ELSE LET r == SetMax(ends)
                 h == SetMin({i \in (r + 1)..Len(text) : text[i] \notin Space})
             IN  MapPut(map, Trim(SubSeq(text, 1, r)),
                             Trim(SubSeq(text, h + 1, Len(text))))

RECURSIVE ParseLegendDirect(_, _)
ParseLegendDirect(map, cells) ==
    IF cells = <<>> THEN map
    ELSE ParseLegendDirect(ParseLegendCell(map, Head(cells)), Tail(cells))

ParseLegend(v, cells) ==
    IF v = "frames" THEN ParseLegendFrames(EmptyMap, cells)
    ELSE ParseLegendDirect(EmptyMap, cells)

----------------------------------------------------------------------------
(* Date-column locator                                                     *)

DigitValue(c) ==
    CASE c = "0" -> 0 [] c = "1" -> 1 [] c = "2" -> 2 [] c = "3" -> 3
      [] c = "4" -> 4 [] c = "5" -> 5 [] c = "6" -> 6 [] c = "7" -> 7
      [] c = "8" -> 8 [] c = "9" -> 9

DigitChar(d) == CHOOSE c \in Digit : DigitValue(c) = d

\* parseInt of a run of decimal digits
RECURSIVE ParseInt(_)
ParseInt(ds) ==
    IF ds = <<>> THEN 0
    ELSE 10 * ParseInt(SubSeq(ds, 1, Len(ds) - 1)) + DigitValue(ds[Len(ds)])

\* Number.prototype.toString for a positive integer
RECURSIVE ToDigits(_)
ToDigits(n) ==
    IF n < 10 THEN <<DigitChar(n)>>
    ELSE ToDigits(n \div 10) \o <<DigitChar(n % 10)>>

\* text.replace(/\s+/g, ' ')
RECURSIVE CollapseSpaces(_)
CollapseSpaces(s) ==
    IF s = <<>> THEN <<>>
    ELSE IF Head(s) \in Space
         THEN LET rest == {i \in 1..Len(s) : s[i] \notin Space}
              IN  IF rest = {} THEN <<" ">>
                  ELSE <<" ">> \o CollapseSpaces(SubSeq(s, SetMin(rest), Len(s)))
         ELSE <<Head(s)>> \o CollapseSpaces(Tail(s))

\* text.match(/\d+/): the first maximal run of digits, <<>> when there is none
FirstDigitRun(text) ==
    LET ds == {i \in 1..Len(text) : text[i] \in Digit}
    IN  IF ds = {} THEN <<>>
        ELSE LET a    == SetMin(ds)
                 stop == {i \in a..Len(text) : text[i] \notin Digit}
                 b    == IF stop = {} THEN Len(text) ELSE SetMin(stop) - 1
             IN  SubSeq(text, a, b)

\* index.js: allHeaderTexts[i]
HeaderTextFrames(h) == CollapseSpaces(Trim(h))

\* index.js: numMatch && parseInt(numMatch[0]) === todayNum
MatchesFirstNumber(text, day) ==
    /\ FirstDigitRun(text) # <<>>
    /\ ParseInt(FirstDigitRun(text)) = day

\* part_000: new RegExp(`^\\s*${today}\\b`).test(text), text already trimmed
MatchesAnchor(text, day) ==
    LET lead == {i \in 1..Len(text) : text[i] \notin Space}
        pat  == ToDigits(day)
    IN  /\ lead # {}
        /\ LET a == SetMin(lead)
               b == a + Len(pat) - 1
           IN  /\ b <= Len(text)
               /\ SubSeq(text, a, b) = pat
               /\ (b = Len(text) \/ text[b + 1] \notin WordChar)

HeaderMatches(v, h, day) ==
    IF v = "frames" THEN MatchesFirstNumber(HeaderTextFrames(h), day)
    ELSE MatchesAnchor(Trim(h), day)

\* the loop without its break: the last matching column wins
RECURSIVE FindTodayColumnNoBreak(_, _, _, _)
FindTodayColumnNoBreak(v, hs, day, i) ==
    IF i >= Len(hs) THEN -1
    ELSE LET later == FindTodayColumnNoBreak(v, hs, day, i + 1)
         IN  IF later # -1 THEN later
             ELSE IF HeaderMatches(v, hs[i + 1], day) THEN i ELSE -1

\* the for loop with break: the column found when scanning from index i
\* (zero-based), -1 when the loop runs off the end
RECURSIVE FindTodayColumn(_, _, _, _)
FindTodayColumn(v, hs, day, i) ==
    IF i >= Len(hs) THEN -1
    ELSE IF HeaderMatches(v, hs[i + 1], day) THEN i
         ELSE FindTodayColumn(v, hs, day, i + 1)

\* todayHeaderText as assigned inside the loop
HeaderTextAt(v, hs, i) ==
    IF i = -1 THEN <<>>
    ELSE IF v = "frames" THEN HeaderTextFrames(hs[i + 1])
         ELSE Trim(CollapseSpaces(Trim(hs[i + 1])))

----------------------------------------------------------------------------
(* Attendance-table scanner                                                *)

sTotal   == <<"T","o","t","a","l">>
sLegend  == <<"L","e","g","e","n","d">>
sLegends == <<"L","e","g","e","n","d","s">>
sGDot    == <<"G",".">>

\* the markers tested with code.includes(...)
Stoplist(v) ==
    IF v = "frames" THEN {sTotal, sLegend, sGDot} ELSE {sTotal, sLegends}

\* legendMap[code] || code
DisplayName(map, code) ==
    IF code \in DOMAIN map /\ map[code] # <<>> THEN map[code] ELSE code

\* the length guard written with < instead of <=
RowTooShortOffByOne(cells, col) == Len(cells) < col

\* if (cells.length <= todayColIndex) continue;
RowTooShort(cells, col) == Len(cells) <= col

\* One pass of the for...of loop over the data rows.  An index past the end
\* of `cells' yields undefined, and awaiting textContent() on it throws.
ScanRow(v, acc, cells, map, col) ==
    IF RowTooShort(cells, col) THEN acc
    ELSE IF Len(cells) = 0 THEN [acc EXCEPT !.raised = TRUE]
    ELSE LET code == Trim(cells[1])
         IN  IF code = <<>> \/ \E m \in Stoplist(v) : Includes(code, m) THEN acc
             ELSE IF col + 1 > Len(cells) \/ col < 0
                  THEN [acc EXCEPT !.raised = TRUE]
                  ELSE IF Includes(Trim(cells[col + 1]), <<"A">>)
                       THEN [acc EXCEPT !.absent =
                                Append(@, <<code, DisplayName(map, code)>>)]
                       ELSE acc

RECURSIVE ScanRows(_, _, _, _, _)
ScanRows(v, acc, rs, map, col) ==
    IF rs = <<>> \/ acc.raised THEN acc
    ELSE ScanRows(v, ScanRow(v, acc, Head(rs), map, col), Tail(rs), map, col)

Scan(v, rs, map, col) ==
    ScanRows(v, [absent |-> <<>>, raised |-> FALSE], rs, map, col)

----------------------------------------------------------------------------
(* Portal navigation (index.js steps 2-4, part_000 step 2)                 *)

MaxFrames == 2

UrlDashboard  == "students/index.php"
UrlMenu       == "students/menu.php"
UrlAttendance == "students/attendance_class_step1.php"
UrlTable      == "students/index1.php"
FrameUrlPool  == {UrlDashboard, UrlMenu, UrlAttendance, UrlTable}

\* frame.url().includes('attendance_class_step1')
IsAttendanceUrl(u) == u = UrlAttendance
\* f.url().includes('index1.php')
IsTableUrl(u) == u = UrlTable

\* what the click loops can observe of one frame: whether the fuzzy-text
\* link and the #tree-10-link anchor exist, and whether acting on the frame
\* throws (the click on #tree-5-link only unfolds the tree and sets nothing)
FrameLinks == [text : BOOLEAN, tree10 : BOOLEAN, throws : BOOLEAN]
FrameLinkLists == UNION {[1..k -> FrameLinks] : k \in 1..MaxFrames}
FrameUrlLists  == UNION {[1..k -> FrameUrlPool] : k \in 1..MaxFrames}

\* first loop: a frame whose link exists and whose click does not throw sets
\* clickedAttendance; an exception is swallowed and the loop moves on
TextClick(fs) == \E i \in 1..Len(fs) : fs[i].text /\ ~fs[i].throws

\* fallback loop over the tree anchors
AnchorClick(fs) == \E i \in 1..Len(fs) : fs[i].tree10 /\ ~fs[i].throws

\* frame scan: some loaded frame has the attendance address
ScanFinds(urls) == \E i \in 1..Len(urls) : IsAttendanceUrl(urls[i])

\* the anchors clicked without the if (!clickedAttendance) around them
StrategiesTriedAnchorsAlways(fs, urls) ==
    <<[s |-> "text", ok |-> TextClick(fs)],
      [s |-> "anchor", ok |-> AnchorClick(fs)],
      [s |-> "scan", ok |-> ScanFinds(urls)]>>

\* the strategies the navigation of index.js goes through, in order, each
\* with its outcome; the anchors are inside if (!clickedAttendance)
StrategiesTried(fs, urls) ==
    <<[s |-> "text", ok |-> TextClick(fs)]>>
    \o (IF TextClick(fs) THEN <<>>
        ELSE <<[s |-> "anchor", ok |-> AnchorClick(fs)]>>)
    \o <<[s |-> "scan", ok |-> ScanFinds(urls)]>>

Raise(step, kind, urls) ==
    /\ pc' = "Catch"
    /\ raisedAt' = step
    /\ errKind' = kind
    /\ errUrls' = urls
    /\ trace' = Append(trace, step)

----------------------------------------------------------------------------
(* The run                                                                 *)

Variants == {"frames", "direct"}

LoginOk ==
    /\ pc = "Login"
    /\ pc' = "Navigate"
    /\ trace' = Append(trace, "Login")
    /\ UNCHANGED <<variant, sends, exitCode, closeCalls, raisedAt, errKind,
                   errUrls, tried, clickedAttendance, frameUrls, navSignal,
                   tableReloaded, staleRead, legendInput, legendMap, headers,
                   today, todayColIndex, todayHeaderText, rows, absentSubjects,
                   scanRaised>>

LoginTimeout ==
    /\ pc = "Login"
    /\ Raise("Login", "AuthenticationTimeout", <<>>)
    /\ UNCHANGED <<variant, sends, exitCode, closeCalls, tried,
                   clickedAttendance, frameUrls, navSignal, tableReloaded,
                   staleRead, legendInput, legendMap, headers, today,
                   todayColIndex, todayHeaderText, rows, absentSubjects,
                   scanRaised>>

\* index.js: click loops, 3 s wait, frame scan, throw when no frame matches
NavigateFrames ==
    /\ pc = "Navigate" /\ variant = "frames"
    /\ \E fs \in FrameLinkLists, urls \in FrameUrlLists :
          /\ clickedAttendance' = (TextClick(fs) \/ AnchorClick(fs))
          /\ tried' = StrategiesTried(fs, urls)
          /\ frameUrls' = urls
          /\ IF ScanFinds(urls)
             THEN /\ pc' = "SelectMonth"
                  /\ trace' = Append(trace, "Navigate")
                  /\ UNCHANGED <<raisedAt, errKind, errUrls>>
             ELSE Raise("Navigate", "ViewNotFound", urls)
    /\ UNCHANGED <<variant, sends, exitCode, closeCalls, navSignal,
                   tableReloaded, staleRead, legendInput, legendMap, headers,
                   today, todayColIndex, todayHeaderText, rows, absentSubjects,
                   scanRaised>>

\* part_000: page.goto of the attendance page; goto throws when it fails
NavigateDirect ==
    /\ pc = "Navigate" /\ variant = "direct"
    /\ \E ok \in BOOLEAN :
          /\ tried' = <<[s |-> "url", ok |-> ok]>>
          /\ IF ok THEN /\ pc' = "SelectMonth"
                        /\ trace' = Append(trace, "Navigate")
                        /\ UNCHANGED <<raisedAt, errKind, errUrls>>
             ELSE Raise("Navigate", "NavigationError", <<>>)
    /\ UNCHANGED <<variant, sends, exitCode, closeCalls, clickedAttendance,
                   frameUrls, navSignal, tableReloaded, staleRead, legendInput,
                   legendMap, headers, today, todayColIndex, todayHeaderText,
                   rows, absentSubjects, scanRaised>>

\* selectOption('#months_01', monthValue): the form is submitted and the
\* table for the chosen month starts loading
SelectMonth ==
    /\ pc = "SelectMonth"
    /\ \E ok \in BOOLEAN :
          IF ok THEN /\ pc' = "AwaitNavigation"
                     /\ trace' = Append(trace, "SelectMonth")
                     /\ navSignal' = FALSE
                     /\ tableReloaded' = FALSE
                     /\ UNCHANGED <<raisedAt, errKind, errUrls>>
          ELSE /\ Raise("SelectMonth", "Timeout", <<>>)
               /\ UNCHANGED <<navSignal, tableReloaded>>
    /\ UNCHANGED <<variant, sends, exitCode, closeCalls, tried,
                   clickedAttendance, frameUrls, staleRead, legendInput,
                   legendMap, headers, today, todayColIndex, todayHeaderText,
                   rows, absentSubjects, scanRaised>>

\* The portal: the signal the script awaits.  In index.js it is the
\* navigation of the step1 form frame, while the table loads in the
\* index1.php content frame; in part_000 it is the load state of the page
\* that holds the table.
NavSignalFires ==
    /\ pc = "AwaitNavigation" /\ ~navSignal
    /\ variant = "direct" => tableReloaded
    /\ navSignal' = TRUE
    /\ UNCHANGED <<variant, pc, trace, sends, exitCode, closeCalls, raisedAt,
                   errKind, errUrls, tried, clickedAttendance, frameUrls,
                   tableReloaded, staleRead, legendInput, legendMap, headers,
                   today, todayColIndex, todayHeaderText, rows, absentSubjects,
                   scanRaised>>

\* The portal: the table of the selected month finishes loading
TableReloadCompletes ==
    /\ ~tableReloaded
    /\ pc \in {"AwaitNavigation", "Settle", "FindTableFrame", "ParseLegend"}
    /\ tableReloaded' = TRUE
    /\ UNCHANGED <<variant, pc, trace, sends, exitCode, closeCalls, raisedAt,
                   errKind, errUrls, tried, clickedAttendance, frameUrls,
                   navSignal, staleRead, legendInput, legendMap, headers,
                   today, todayColIndex, todayHeaderText, rows, absentSubjects,
                   scanRaised>>

\* waitForNavigation / waitForLoadState({networkidle}) resolves
AwaitNavigationOk ==
    /\ pc = "AwaitNavigation" /\ navSignal
    /\ pc' = "Settle"
    /\ trace' = Append(trace, "AwaitNavigation")
    /\ UNCHANGED <<variant, sends, exitCode, closeCalls, raisedAt, errKind,
                   errUrls, tried, clickedAttendance, frameUrls, navSignal,
                   tableReloaded, staleRead, legendInput, legendMap, headers,
                   today, todayColIndex, todayHeaderText, rows, absentSubjects,
                   scanRaised>>

\* ... or runs into its default timeout
AwaitNavigationTimeout ==
    /\ pc = "AwaitNavigation" /\ ~navSignal
    /\ Raise("AwaitNavigation", "Timeout", <<>>)
    /\ UNCHANGED <<variant, sends, exitCode, closeCalls, tried,
                   clickedAttendance, frameUrls, navSignal, tableReloaded,
                   staleRead, legendInput, legendMap, headers, today,
                   todayColIndex, todayHeaderText, rows, absentSubjects,
                   scanRaised>>

\* page.waitForTimeout(3000) / (2000): elapses whatever the portal does
SettleDelay ==
    /\ pc = "Settle"
    /\ pc' = IF variant = "frames" THEN "FindTableFrame" ELSE "ParseLegend"
    /\ trace' = Append(trace, "Settle")
    /\ UNCHANGED <<variant, sends, exitCode, closeCalls, raisedAt, errKind,
                   errUrls, tried, clickedAttendance, frameUrls, navSignal,
                   tableReloaded, staleRead, legendInput, legendMap, headers,
                   today, todayColIndex, todayHeaderText, rows, absentSubjects,
                   scanRaised>>

\* index.js: page.frames().find(f => f.url().includes('index1.php'))
FindTableFrame ==
    /\ pc = "FindTableFrame"
    /\ \E urls \in FrameUrlLists :
          IF \E i \in 1..Len(urls) : IsTableUrl(urls[i])
          THEN /\ pc' = "ParseLegend"
               /\ trace' = Append(trace, "FindTableFrame")
               /\ UNCHANGED <<raisedAt, errKind, errUrls>>
          ELSE Raise("FindTableFrame", "TableFrameNotFound", urls)
    /\ UNCHANGED <<variant, sends, exitCode, closeCalls, tried,
                   clickedAttendance, frameUrls, navSignal, tableReloaded, staleRead,
                   legendInput, legendMap, headers, today, todayColIndex,
                   todayHeaderText, rows, absentSubjects, scanRaised>>

ParseLegendStep ==
    /\ pc = "ParseLegend"
    /\ legendMap' = ParseLegend(variant, legendInput)
    /\ staleRead' = ~tableReloaded
    /\ pc' = "LocateColumn"
    /\ trace' = Append(trace, "ParseLegend")
    /\ UNCHANGED <<variant, sends, exitCode, closeCalls, raisedAt, errKind,
                   errUrls, tried, clickedAttendance, frameUrls, navSignal,
                   tableReloaded, legendInput, headers, today, todayColIndex,
                   todayHeaderText, rows, absentSubjects, scanRaised>>

\* the header loop without the early exit
LocateColumnNoEarlyExit ==
    /\ pc = "LocateColumn"
    /\ LET col == FindTodayColumn(variant, headers, today, 0)
       IN  /\ todayColIndex' = col
           /\ todayHeaderText' = HeaderTextAt(variant, headers, col)
    /\ pc' = "ScanRows"
    /\ trace' = Append(trace, "LocateColumn")
    /\ UNCHANGED <<variant, sends, exitCode, closeCalls, raisedAt, errKind,
                   errUrls, tried, clickedAttendance, frameUrls, navSignal,
                   tableReloaded, staleRead, legendInput, legendMap, headers,
                   today, rows, absentSubjects, scanRaised>>

\* the header loop, then the early exit: browser.close(); return;
LocateColumn ==
    /\ pc = "LocateColumn"
    /\ LET col == FindTodayColumn(variant, headers, today, 0)
       IN  /\ todayColIndex' = col
           /\ todayHeaderText' = HeaderTextAt(variant, headers, col)
           /\ pc' = IF col = -1 THEN "Finally" ELSE "ScanRows"
           /\ closeCalls' = IF col = -1 THEN closeCalls + 1 ELSE closeCalls
    /\ trace' = Append(trace, "LocateColumn")
    /\ UNCHANGED <<variant, sends, exitCode, raisedAt, errKind, errUrls,
                   tried, clickedAttendance, frameUrls, navSignal,
                   tableReloaded, staleRead, legendInput, legendMap, headers,
                   today, rows, absentSubjects, scanRaised>>

ScanRowsStep ==
    /\ pc = "ScanRows"
    /\ LET res == Scan(variant, rows, legendMap, todayColIndex)
       IN  /\ absentSubjects' = res.absent
           /\ scanRaised' = res.raised
           /\ IF res.raised
              THEN Raise("ScanRows", "TypeError", <<>>)
              ELSE /\ pc' = "Screenshot"
                   /\ trace' = Append(trace, "ScanRows")
                   /\ UNCHANGED <<raisedAt, errKind, errUrls>>
    /\ UNCHANGED <<variant, sends, exitCode, closeCalls, tried,
                   clickedAttendance, frameUrls, navSignal, tableReloaded,
                   staleRead, legendInput, legendMap, headers, today,
                   todayColIndex, todayHeaderText, rows>>

Screenshot ==
    /\ pc = "Screenshot"
    /\ \E ok \in BOOLEAN :
          IF ok THEN /\ pc' = "Notify"
                     /\ trace' = Append(trace, "Screenshot")
                     /\ UNCHANGED <<raisedAt, errKind, errUrls>>
          ELSE Raise("Screenshot", "ScreenshotError", <<>>)
    /\ UNCHANGED <<variant, sends, exitCode, closeCalls, tried,
                   clickedAttendance, frameUrls, navSignal, tableReloaded,
                   staleRead, legendInput, legendMap, headers, today,
                   todayColIndex, todayHeaderText, rows, absentSubjects,
                   scanRaised>>

\* sendTelegramMessage / sendTelegramPhoto: one request, throws when !res.ok
Send(kind, ok) == sends' = Append(sends, [kind |-> kind, ok |-> ok])

\* the confirmation commented out in both scripts
SendsAllPresentNever(v) == FALSE

\* index.js sends the confirmation; in part_000 the call is commented out
SendsAllPresent(v) == v = "frames"

NotifyAllPresent ==
    /\ pc = "Notify" /\ absentSubjects = <<>>
    /\ IF SendsAllPresent(variant)
       THEN \E ok \in BOOLEAN :
              /\ Send("allPresent", ok)
              /\ IF ok THEN /\ pc' = "Finally"
                            /\ trace' = Append(trace, "Notify")
                            /\ UNCHANGED <<raisedAt, errKind, errUrls>>
                 ELSE Raise("Notify", "NotificationDeliveryError", <<>>)
       ELSE /\ pc' = "Finally"
            /\ trace' = Append(trace, "Notify")
            /\ UNCHANGED <<sends, raisedAt, errKind, errUrls>>
    /\ UNCHANGED <<variant, exitCode, closeCalls, tried, clickedAttendance,
                   frameUrls, navSignal, tableReloaded, staleRead, legendInput,
                   legendMap, headers, today, todayColIndex, todayHeaderText,
                   rows, absentSubjects, scanRaised>>

\* the alert whose rejection is not thrown: the photo follows regardless
NotifyAlertPhotoRegardless ==
    /\ pc = "Notify" /\ absentSubjects # <<>>
    /\ \E ok \in BOOLEAN : Send("alert", ok)
    /\ pc' = "SendPhoto"
    /\ trace' = Append(trace, "Notify")
    /\ UNCHANGED <<raisedAt, errKind, errUrls>>
    /\ UNCHANGED <<variant, exitCode, closeCalls, tried, clickedAttendance,
                   frameUrls, navSignal, tableReloaded, staleRead, legendInput,
                   legendMap, headers, today, todayColIndex, todayHeaderText,
                   rows, absentSubjects, scanRaised>>

NotifyAlert ==
    /\ pc = "Notify" /\ absentSubjects # <<>>
    /\ \E ok \in BOOLEAN :
          /\ Send("alert", ok)
          /\ IF ok THEN /\ pc' = "SendPhoto"
                        /\ trace' = Append(trace, "Notify")
                        /\ UNCHANGED <<raisedAt, errKind, errUrls>>
             ELSE Raise("Notify", "NotificationDeliveryError", <<>>)
    /\ UNCHANGED <<variant, exitCode, closeCalls, tried, clickedAttendance,
                   frameUrls, navSignal, tableReloaded, staleRead, legendInput,
                   legendMap, headers, today, todayColIndex, todayHeaderText,
                   rows, absentSubjects, scanRaised>>

SendPhoto ==
    /\ pc = "SendPhoto"
    /\ \E ok \in BOOLEAN :
          /\ Send("photo", ok)
          /\ IF ok THEN /\ pc' = "Finally"
                        /\ trace' = Append(trace, "SendPhoto")
                        /\ UNCHANGED <<raisedAt, errKind, errUrls>>
             ELSE Raise("SendPhoto", "NotificationDeliveryError", <<>>)
    /\ UNCHANGED <<variant, exitCode, closeCalls, tried, clickedAttendance,
                   frameUrls, navSignal, tableReloaded, staleRead, legendInput,
                   legendMap, headers, today, todayColIndex, todayHeaderText,
                   rows, absentSubjects, scanRaised>>

\* the error text sent again when its first send is rejected
CatchNotifyRetry ==
    /\ pc = "Catch"
    /\ \E ok \in BOOLEAN, ok2 \in BOOLEAN :
          sends' = IF ok THEN Append(sends, [kind |-> "error", ok |-> TRUE])
                   ELSE sends \o <<[kind |-> "error", ok |-> FALSE],
                                   [kind |-> "error", ok |-> ok2]>>
    /\ pc' = "Exit"
    /\ trace' = Append(trace, "CatchNotify")
    /\ UNCHANGED <<variant, exitCode, closeCalls, raisedAt, errKind, errUrls,
                   tried, clickedAttendance, frameUrls, navSignal,
                   tableReloaded, staleRead, legendInput, legendMap, headers,
                   today, todayColIndex, todayHeaderText, rows, absentSubjects,
                   scanRaised>>

\* catch (err): one sendTelegramMessage inside try { } catch (_) { }
CatchNotify ==
    /\ pc = "Catch"
    /\ \E ok \in BOOLEAN : Send("error", ok)
    /\ pc' = "Exit"
    /\ trace' = Append(trace, "CatchNotify")
    /\ UNCHANGED <<variant, exitCode, closeCalls, raisedAt, errKind, errUrls,
                   tried, clickedAttendance, frameUrls, navSignal,
                   tableReloaded, staleRead, legendInput, legendMap, headers,
                   today, todayColIndex, todayHeaderText, rows, absentSubjects,
                   scanRaised>>

\* process.exit(1) ends the process at once: the finally block does not run
ProcessExit ==
    /\ pc = "Exit"
    /\ exitCode' = 1
    /\ pc' = "Ended"
    /\ trace' = Append(trace, "ProcessExit")
    /\ UNCHANGED <<variant, sends, closeCalls, raisedAt, errKind, errUrls,
                   tried, clickedAttendance, frameUrls, navSignal,
                   tableReloaded, staleRead, legendInput, legendMap, headers,
                   today, todayColIndex, todayHeaderText, rows, absentSubjects,
                   scanRaised>>

\* finally { await browser.close(); } and the normal end of the process
Finally ==
    /\ pc = "Finally"
    /\ closeCalls' = closeCalls + 1
    /\ exitCode' = 0
    /\ pc' = "Ended"
    /\ trace' = Append(trace, "Finally")
    /\ UNCHANGED <<variant, sends, raisedAt, errKind, errUrls, tried,
                   clickedAttendance, frameUrls, navSignal, tableReloaded,
                   staleRead, legendInput, legendMap, headers, today,
                   todayColIndex, todayHeaderText, rows, absentSubjects,
                   scanRaised>>

----------------------------------------------------------------------------
(* Portal content of a run                                                 *)

sCode    == <<"C", "o", "d", "e">>
sBAS202  == <<"B", "A", "S", "-", "2", "0", "2">>
sBIO110  == <<"B", "I", "O", "-", "1", "1", "0">>
sGTotal  == <<"G", ".", " ", "T", "o", "t", "a", "l">>
sP       == <<"P">>
sPP      == <<"P", "P">>
sA       == <<"A">>
sAA      == <<"A", "A">>
sDash    == <<"-">>

LegendTwoEntries == <<"B", "A", "S", "-", "2", "0", "2", " ", "-", " ", "E", "n", "g", "g", ".", " ", "C", "h", "e", "m", "i", "s", "t", "r", "y", NL, "B", "I", "O", "-", "1", "1", "0", " ", "-", " ", "B", "i", "o", "l", "o", "g", "y">>
LegendNoEntry    == <<"L", "e", "g", "e", "n", "d", " ", "-", " ", "r", "e", "f", "e", "r", " ", "b", "e", "l", "o", "w">>

RunLegendCells == {<<LegendTwoEntries>>, <<LegendNoEntry>>}

ExampleHeaders == <<sCode, <<"1", " ", "M", "o", "n">>, <<"2", " ", "T", "u", "e">>, <<"2", "6", " ", "W", "e", "d">>>>
RunHeaderRows == {ExampleHeaders, <<sCode, <<"2", " ", "T", "u", "e">>>>, <<>>}
RunDays == {1, 26}

RunTables ==
    { << <<sBAS202, sP, sP, sA>>, <<sBIO110, sP, sP, sAA>>, <<sGTotal, sA, sA, sA>> >>,
      << <<sBAS202, sP, sPP, sP>>, <<sBIO110, sDash, sP, sDash>> >>,
      << <<sBAS202, sA>>, <<sBIO110, sA, sP, sPP>> >> }

Init ==
    /\ variant \in Variants
    /\ pc = "Login"
    /\ trace = <<>>
    /\ sends = <<>>
    /\ exitCode = -1
    /\ closeCalls = 0
    /\ raisedAt = "none"
    /\ errKind = "none"
    /\ errUrls = <<>>
    /\ tried = <<>>
    /\ clickedAttendance = FALSE
    /\ frameUrls = <<>>
    /\ navSignal = FALSE
    /\ tableReloaded = TRUE
    /\ staleRead = FALSE
    /\ legendInput \in RunLegendCells
    /\ legendMap = EmptyMap
    /\ headers \in RunHeaderRows
    /\ today \in RunDays
    /\ todayColIndex = -1
    /\ todayHeaderText = <<>>
    /\ rows \in RunTables
    /\ absentSubjects = <<>>
    /\ scanRaised = FALSE

Next ==
    \/ LoginOk \/ LoginTimeout
    \/ NavigateFrames \/ NavigateDirect
    \/ SelectMonth \/ NavSignalFires \/ TableReloadCompletes
    \/ AwaitNavigationOk \/ AwaitNavigationTimeout
    \/ SettleDelay \/ FindTableFrame
    \/ ParseLegendStep \/ LocateColumn \/ ScanRowsStep
    \/ Screenshot \/ NotifyAllPresent \/ NotifyAlert \/ SendPhoto
    \/ CatchNotify \/ ProcessExit \/ Finally

Spec == Init /\ [][Next]_vars

----------------------------------------------------------------------------
(* Properties of the run                                                   *)

SendsOfKind(k) == {i \in 1..Len(sends) : sends[i].kind = k}
TraceCount(step) == Cardinality({i \in 1..Len(trace) : trace[i] = step})
Did(step) == step \in Range(trace)
Pos(step) == SetMin({i \in 1..Len(trace) : trace[i] = step})

\* C1: on every path (normal completion, the no-column early exit, any
\* failure that enters the catch block) browser.close() has been invoked by
\* the time the process ends.
C1_BrowserClosedOnEveryPath ==
    pc = "Ended" => closeCalls >= 1

\* C2: when a step raises, the run moves to the catch block, the failed step
\* is not retried, exactly one error text is attempted, a rejected error text
\* is discarded without another attempt, and the exit status is 1.
C2_FailureHandledOnce ==
    /\ raisedAt = "none" => SendsOfKind("error") = {} /\ pc # "Catch"
    /\ raisedAt # "none" =>
          /\ pc \in {"Catch", "Exit", "Ended"}
          /\ TraceCount(raisedAt) = 1
          /\ trace[Len(trace)] \in {raisedAt, "CatchNotify", "ProcessExit"}
          /\ pc = "Catch" => SendsOfKind("error") = {}
          /\ pc \in {"Exit", "Ended"} =>
                /\ Cardinality(SendsOfKind("error")) = 1
                /\ sends[Len(sends)].kind = "error"
          /\ pc = "Ended" => exitCode = 1

C2_Witness ==
    /\ pc = "Ended" /\ raisedAt = "Notify"
    /\ sends[Len(sends)] = [kind |-> "error", ok |-> FALSE]

\* C3: when no header matches today, the run goes from the column search
\* straight to the end: no row scan, no screenshot, no send of any kind,
\* exit status 0.
C3_NoColumnSilentExit ==
    (Did("LocateColumn") /\ todayColIndex = -1) =>
        /\ pc \in {"Finally", "Ended"}
        /\ ~Did("ScanRows") /\ ~Did("Screenshot") /\ ~Did("Notify")
        /\ sends = <<>>
        /\ raisedAt = "none"
        /\ pc = "Ended" =>
              /\ exitCode = 0
              /\ SubSeq(trace, Len(trace) - 1, Len(trace))
                    = <<"LocateColumn", "Finally">>

C3_Witness ==
    pc = "Ended" /\ Did("LocateColumn") /\ todayColIndex = -1

\* C4: a photo is sent only when the absence list is non-empty and the
\* alert text of the same run was accepted before it; a rejected alert or an
\* empty list means no photo.
C4_PhotoOnlyAfterAcceptedAlert ==
    /\ \A i \in SendsOfKind("photo") :
          /\ absentSubjects # <<>>
          /\ \E j \in 1..(i - 1) : sends[j] = [kind |-> "alert", ok |-> TRUE]
    /\ (\E j \in 1..Len(sends) : sends[j] = [kind |-> "alert", ok |-> FALSE])
          => SendsOfKind("photo") = {}
    /\ absentSubjects = <<>> => SendsOfKind("photo") = {}

C4_Witness ==
    /\ pc = "Ended"
    /\ sends = <<[kind |-> "alert", ok |-> TRUE], [kind |-> "photo", ok |-> TRUE]>>

\* every data row that has a cell in today's column holds no 'A' there
AllStatusesNotAbsent ==
    \A r \in 1..Len(rows) :
        Len(rows[r]) > todayColIndex =>
            ~Includes(Trim(rows[r][todayColIndex + 1]), <<"A">>)

\* C5 as stated: with the column found and no status containing 'A', a run
\* that ends normally has sent exactly one "all present" text and no photo,
\* with exit status 0.
C5_AllPresentMessageAlways ==
    (pc = "Ended" /\ raisedAt = "none" /\ Did("ScanRows") /\ AllStatusesNotAbsent) =>
        /\ absentSubjects = <<>>
        /\ sends = <<[kind |-> "allPresent", ok |-> TRUE]>>
        /\ exitCode = 0

\* C5 amended: with the column found and no status containing 'A' the
\* absence list is empty and neither an alert nor a photo is ever sent; a
\* run in which nothing raises ends with exit status 0 having sent exactly
\* one "all present" text in index.js and nothing at all in part_000.
C5_AllPresentPerVariant ==
    (Did("ScanRows") /\ AllStatusesNotAbsent) =>
        /\ absentSubjects = <<>>
        /\ SendsOfKind("photo") = {} /\ SendsOfKind("alert") = {}
        /\ Cardinality(SendsOfKind("allPresent")) <= 1
        /\ variant = "direct" => SendsOfKind("allPresent") = {}
        /\ (pc = "Ended" /\ raisedAt = "none") =>
              /\ exitCode = 0
              /\ sends = IF variant = "frames"
                         THEN <<[kind |-> "allPresent", ok |-> TRUE]>>
                         ELSE <<>>

C5_Witness ==
    /\ pc = "Ended" /\ variant = "frames" /\ Did("ScanRows")
    /\ AllStatusesNotAbsent /\ rows # <<>>
    /\ sends = <<[kind |-> "allPresent", ok |-> TRUE]>>

\* C6: the steps run in order (login, then navigation, then month
\* selection, then parsing) and parsing never starts before the table reload
\* triggered by the month selection has completed.
C6_ParsingAfterReload ==
    /\ Did("Navigate") => Did("Login") /\ Pos("Login") < Pos("Navigate")
    /\ Did("SelectMonth") => Did("Navigate") /\ Pos("Navigate") < Pos("SelectMonth")
    /\ Did("ParseLegend") =>
          /\ Did("Settle") /\ Pos("SelectMonth") < Pos("Settle")
          /\ Pos("Settle") < Pos("ParseLegend")
          /\ ~staleRead

TriedNames == {tried[i].s : i \in 1..Len(tried)}

\* C7 as stated: the strategies form one ordered chain (direct URL, text
\* click, anchors only after a failed text click, frame scan) and the
\* view-not-found error, listing every frame address, is raised only when
\* every strategy has been tried and none succeeded.
C7_NotFoundOnlyAfterEveryStrategy ==
    /\ \A i \in 1..Len(tried) :
          tried[i].s = "anchor" => (i > 1 /\ tried[i - 1] = [s |-> "text", ok |-> FALSE])
    /\ errKind = "ViewNotFound" =>
          /\ TriedNames = {"url", "text", "anchor", "scan"}
          /\ \A i \in 1..Len(tried) : ~tried[i].ok
          /\ errUrls = frameUrls

\* C7 amended: index.js tries the text click, the anchors only if the text
\* click did not succeed, and then always the frame scan; it raises the
\* view-not-found error, listing every frame address, exactly when the scan
\* finds no attendance frame, whatever the clicks did.  The direct URL is the
\* only strategy of part_000, which has no fallback and never raises that
\* error.
C7_ChainPerVariant ==
    /\ errKind = "ViewNotFound" => variant = "frames" /\ raisedAt = "Navigate"
    /\ (Did("Navigate") /\ variant = "frames") =>
          /\ tried[1].s = "text"
          /\ tried[Len(tried)].s = "scan"
          /\ IF tried[1].ok THEN Len(tried) = 2
             ELSE Len(tried) = 3 /\ tried[2].s = "anchor"
          /\ clickedAttendance = (\E i \in 1..(Len(tried) - 1) : tried[i].ok)
          /\ tried[Len(tried)].ok = (\E i \in 1..Len(frameUrls) :
                                        frameUrls[i] = UrlAttendance)
          /\ (raisedAt = "Navigate") = ~tried[Len(tried)].ok
          /\ raisedAt = "Navigate" =>
                errKind = "ViewNotFound" /\ errUrls = frameUrls
    /\ (Did("Navigate") /\ variant = "direct") =>
          /\ Len(tried) = 1 /\ tried[1].s = "url"
          /\ tried[1].ok = (raisedAt # "Navigate")
          /\ raisedAt = "Navigate" => errKind = "NavigationError"

C7_Witness ==
    /\ errKind = "ViewNotFound" /\ pc = "Ended"
    /\ tried = <<[s |-> "text", ok |-> TRUE], [s |-> "scan", ok |-> FALSE]>>
    /\ Len(errUrls) = MaxFrames

----------------------------------------------------------------------------
(* The three extraction functions on their own: the run stands at the step *)
(* that applies the function and the page content ranges over a pool.      *)

MaxLegendLines == 2
MaxHeaders == 3
MaxRows == 2
MaxCol == 2

SeqsUpTo(S, n) == UNION {[1..k -> S] : k \in 0..n}

RECURSIVE Repeat(_, _)
Repeat(c, n) == IF n = 0 THEN <<>> ELSE <<c>> \o Repeat(c, n - 1)

RECURSIVE JoinLines(_)
JoinLines(ls) ==
    IF Len(ls) = 1 THEN ls[1] ELSE ls[1] \o <<NL>> \o JoinLines(Tail(ls))

\* a code of n characters followed by the separator and a name
LineWithCodeLen(n) == Repeat("A", n - 1) \o <<"7">> \o Separator \o <<"x">>

LegendLinePool ==
    { <<"B", "A", "S", "-", "2", "0", "2", " ", "-", " ", "C", "h", "e", "m">>,
      <<"B", "I", "O", "-", "1", "1", "0", " ", "-", " ", "B", "i", "o">>,
      <<"B", "A", "S", "-", "2", "0", "2", " ", "-", " ", "P", "h", "y", "s", "i", "c", "s">>,
      <<"L", "e", "g", "e", "n", "d", " ", "-", " ", "r", "e", "f", "e", "r", " ", "b", "e", "l", "o", "w">>,
      <<"a", "b", "1", " ", "-", " ", "x">>,
      <<"A", " ", "1", " ", "-", " ", "x">>,
      <<"A", "1", " ", "-", " ", "x", " ", "-", " ", "y">>,
      <<" ", " ", "A", "1", " ", " ", "-", " ", " ", "x", " ">>,
      <<"A", "B", "1", "2", "-", "x">>,
      <<"A", "B", "1", "2", " ", EnDash, " ", "x">>,
      <<"A", "B", "1", "2", " ", "-">>,
      <<"T", "o", "t", "a", "l">>,
      <<>>,
      <<"X", " ", "-", " ", "A", "1", " ", "-", " ", "y">>,
      LineWithCodeLen(MaxSepOffset - 1), LineWithCodeLen(MaxSepOffset) }

LegendCellPool ==
    {JoinLines(ls) : ls \in UNION {[1..k -> LegendLinePool] : k \in 1..MaxLegendLines}}
    \cup {LegendTwoEntries, LegendNoEntry}

\* one <td> holding the whole legend, or two <td> of one line each
LegendInputs ==
    {<<c>> : c \in LegendCellPool}
    \cup {<<a, b>> : a \in LegendLinePool, b \in LegendLinePool}

HeaderPool ==
    { <<"C", "o", "d", "e">>,
      <<"1", " ", "M", "o", "n">>,
      <<"2", " ", "T", "u", "e">>,
      <<"2", "6", " ", "W", "e", "d">>,
      <<"1", "2", "6">>,
      <<"1", "2">>,
      <<"2", "6", NL, "F", "e", "b">>,
      <<"2", "6", "-", "0", "2">>,
      <<"W", "e", "d", " ", "2", "6">>,
      <<"0", "2", "6">>,
      <<"2", "6", "t", "h">>,
      <<" ", "1", " ">>,
      <<>> }

HeaderRows == SeqsUpTo(HeaderPool, MaxHeaders) \cup {ExampleHeaders}
Days == {1, 2, 12, 26}

ScanCodePool ==
    { <<" ", "B", "A", "S", "-", "2", "0", "2", " ">>,
      <<>>,
      <<"G", ".", " ", "T", "o", "t", "a", "l">>,
      <<"L", "e", "g", "e", "n", "d">>,
      <<"G", ".", "K", "-", "1">> }
ScanStatusPool ==
    { <<>>, <<sP>>, <<sPP, sA>>, <<sAA, sDash>>, <<sDash, <<" ", "A", " ">>>> }
ScanRowPool == {<<>>} \cup {<<c>> \o st : c \in ScanCodePool, st \in ScanStatusPool}
Tables == SeqsUpTo(ScanRowPool, MaxRows)
ScanLegends == {EmptyMap, ParseLegendFrames(EmptyMap, <<LegendTwoEntries>>)}

StepsBefore(v, step) ==
    LET all == IF v = "frames"
               THEN <<"Login", "Navigate", "SelectMonth", "AwaitNavigation",
                      "Settle", "FindTableFrame", "ParseLegend", "LocateColumn">>
               ELSE <<"Login", "Navigate", "SelectMonth", "AwaitNavigation",
                      "Settle", "ParseLegend", "LocateColumn">>
    IN  SubSeq(all, 1, SetMin({i \in 1..Len(all) : all[i] = step}) - 1)

\* the state of a run in which nothing raised, on arrival at `step'
Arrived(step) ==
    /\ variant \in Variants
    /\ pc = step
    /\ trace = StepsBefore(variant, step)
    /\ sends = <<>>
    /\ exitCode = -1
    /\ closeCalls = 0
    /\ raisedAt = "none"
    /\ errKind = "none"
    /\ errUrls = <<>>
    /\ tried = IF variant = "frames"
               THEN <<[s |-> "text", ok |-> TRUE], [s |-> "scan", ok |-> TRUE]>>
               ELSE <<[s |-> "url", ok |-> TRUE]>>
    /\ clickedAttendance = (variant = "frames")
    /\ frameUrls = IF variant = "frames" THEN <<UrlMenu, UrlAttendance>> ELSE <<>>
    /\ navSignal = TRUE
    /\ tableReloaded = TRUE
    /\ staleRead = FALSE
    /\ absentSubjects = <<>>
    /\ scanRaised = FALSE

InitLegend ==
    /\ Arrived("ParseLegend")
    /\ legendInput \in LegendInputs
    /\ legendMap = EmptyMap
    /\ headers = ExampleHeaders
    /\ today = 26
    /\ todayColIndex = -1
    /\ todayHeaderText = <<>>
    /\ rows = <<>>

SpecLegend == InitLegend /\ [][ParseLegendStep]_vars

InitLocator ==
    /\ Arrived("LocateColumn")
    /\ legendInput = <<LegendTwoEntries>>
    /\ legendMap = ParseLegend(variant, legendInput)
    /\ headers \in HeaderRows
    /\ today \in Days
    /\ todayColIndex = -1
    /\ todayHeaderText = <<>>
    /\ rows = <<>>

SpecLocator == InitLocator /\ [][LocateColumn]_vars

\* the column has been located: any index the header loop can produce
InitScan ==
    /\ variant \in Variants
    /\ pc = "ScanRows"
    /\ trace = StepsBefore(variant, "LocateColumn") \o <<"LocateColumn">>
    /\ sends = <<>>
    /\ exitCode = -1
    /\ closeCalls = 0
    /\ raisedAt = "none"
    /\ errKind = "none"
    /\ errUrls = <<>>
    /\ tried = IF variant = "frames"
               THEN <<[s |-> "text", ok |-> TRUE], [s |-> "scan", ok |-> TRUE]>>
               ELSE <<[s |-> "url", ok |-> TRUE]>>
    /\ clickedAttendance = (variant = "frames")
    /\ frameUrls = IF variant = "frames" THEN <<UrlMenu, UrlAttendance>> ELSE <<>>
    /\ navSignal = TRUE
    /\ tableReloaded = TRUE
    /\ staleRead = FALSE
    /\ absentSubjects = <<>>
    /\ scanRaised = FALSE
    /\ legendInput = <<LegendTwoEntries>>
    /\ legendMap \in ScanLegends
    /\ headers = <<>>
    /\ today = 26
    /\ todayColIndex \in 0..MaxCol
    /\ todayHeaderText = <<>>
    /\ rows \in Tables

SpecScan == InitScan /\ [][ScanRowsStep]_vars

----------------------------------------------------------------------------
(* Properties of the extraction functions                                  *)

RECURSIVE InOrder(_)
InOrder(S) ==
    IF S = {} THEN <<>> ELSE <<SetMin(S)>> \o InOrder(S \ {SetMin(S)})

\* the absence list as the claim describes it, for a given stoplist
AbsentRowsFor(stop) ==
    LET col  == todayColIndex
        qual == {i \in 1..Len(rows) :
                    /\ Len(rows[i]) >= col + 1
                    /\ Trim(rows[i][1]) # <<>>
                    /\ \A m \in stop : ~Includes(Trim(rows[i][1]), m)
                    /\ \E k \in 1..Len(Trim(rows[i][col + 1])) :
                          Trim(rows[i][col + 1])[k] = "A"}
        ord  == InOrder(qual)
    IN  [k \in 1..Len(ord) |->
            LET code == Trim(rows[ord[k]][1])
            IN  <<code, IF code \in DOMAIN legendMap THEN legendMap[code] ELSE code>>]

\* C8 as stated: the absence list is, in row order, the (code, name) of every
\* row with at least todayColIndex+1 cells, a non-empty code containing none
\* of "Total", "Legend"/"Legends", "G.", and a status containing 'A'; short
\* rows are skipped without raising; a code missing from the legend shows as
\* the bare code.
C8_ScanWithOneStoplist ==
    pc # "ScanRows" =>
        /\ ~scanRaised /\ raisedAt = "none"
        /\ absentSubjects = AbsentRowsFor({sTotal, sLegend, sLegends, sGDot})

\* C8 amended: the same, with the stoplist of the script that runs: "Total",
\* "Legend" and "G." in index.js, "Total" and "Legends" in part_000.
C8_ScanWithVariantStoplist ==
    pc # "ScanRows" =>
        /\ ~scanRaised /\ raisedAt = "none"
        /\ absentSubjects =
              AbsentRowsFor(IF variant = "frames" THEN {sTotal, sLegend, sGDot}
                            ELSE {sTotal, sLegends})
        /\ Len(absentSubjects) <=
              Cardinality({r \in 1..Len(rows) : Len(rows[r]) > todayColIndex})

C8_Witness ==
    /\ pc = "Screenshot" /\ Len(rows) = 2
    /\ Len(rows[1]) <= todayColIndex /\ Len(rows[1]) > 0
    /\ absentSubjects = <<<<sBAS202, sBAS202>>>>

\* the legend as the claim describes it: one entry per qualifying line, the
\* last line winning for a repeated code
LegendLinesOf(cells) ==
    LET RECURSIVE Flat(_)
        Flat(cs) == IF cs = <<>> THEN <<>>
                    ELSE SplitLines(Head(cs)) \o Flat(Tail(cs))
    IN  Flat(cells)

ClaimedLegend(cells) ==
    LET ls     == LegendLinesOf(cells)
        T(k)   == Trim(ls[k])
        Off(k) == IndexOf(T(k), <<" ", "-", " ">>)
        Cd(k)  == Trim(SubSeq(T(k), 1, Off(k)))
        Nm(k)  == Trim(SubSeq(T(k), Off(k) + 4, Len(T(k))))
        qual   == {k \in 1..Len(ls) :
                     /\ Off(k) > 0 /\ Off(k) < 20
                     /\ \A i \in 1..Len(Cd(k)) : Cd(k)[i] \notin Space
                     /\ \E i \in 1..Len(Cd(k)) : Cd(k)[i] \in Upper
                     /\ \E i \in 1..Len(Cd(k)) : Cd(k)[i] \in Digit}
    IN  [c \in {Cd(k) : k \in qual} |->
            Nm(SetMax({k \in qual : Cd(k) = c}))]

\* C9: for any legend cell text the parser yields exactly one entry per line
\* whose first " - " lies at an offset in 1..19 and whose code has no
\* whitespace, an uppercase letter and a digit; other lines contribute
\* nothing and a repeated code keeps the last name.
C9_LegendPerLine ==
    pc # "ParseLegend" => legendMap = ClaimedLegend(legendInput)

\* value of the first run of digits of a header, -1 when it has none
LeadingNumber(h) ==
    IF FirstDigitRun(h) = <<>> THEN -1 ELSE ParseInt(FirstDigitRun(h))

\* C10: the locator returns the lowest index whose header denotes today,
\* stopping at the first match, or -1 when none does; a header whose number
\* is not the day (such as "126" or "12" for day 1) is never returned; for
\* the example header row and day 26 the result is the index of "26 Wed".
C10_FirstMatchingColumn ==
    pc # "LocateColumn" =>
        /\ todayColIndex \in -1..(Len(headers) - 1)
        /\ todayColIndex # -1 =>
              /\ HeaderMatches(variant, headers[todayColIndex + 1], today)
              /\ LeadingNumber(headers[todayColIndex + 1]) = today
              /\ \A j \in 1..todayColIndex :
                    ~HeaderMatches(variant, headers[j], today)
              /\ variant = "frames" =>
                    \A j \in 1..todayColIndex : LeadingNumber(headers[j]) # today
        /\ todayColIndex = -1 =>
              /\ \A j \in 1..Len(headers) :
                    ~HeaderMatches(variant, headers[j], today)
              /\ variant = "frames" =>
                    \A j \in 1..Len(headers) : LeadingNumber(headers[j]) # today
        /\ (headers = ExampleHeaders /\ today = 26) => todayColIndex = 3

C10_Witness ==
    /\ pc = "ScanRows" /\ today = 1 /\ todayColIndex = 2
    /\ headers[1] = <<"1", "2", "6">> /\ headers[2] = <<"1", "2">>
    /\ Len(headers) = 3 /\ LeadingNumber(headers[3]) = 1

====
